---- MODULE Spec2Model ----
(***************************************************************************)
(* Large-Text-Processor: the retry decorator, the chunker, the response    *)
(* cache and the "Process Text" pipeline of the Streamlit application.     *)
(*                                                                         *)
(* Strings are sequences of characters; a few fixed texts (the failure     *)
(* marker, the Gemini placeholders) are one-character strings whose single *)
(* character is the whole text.                                            *)
(***************************************************************************)
EXTENDS Integers, Sequences, FiniteSets, TLC

VARIABLES
    \* ---- retry decorator, stand-alone (SpecRetry) ----
    script,          \* what the wrapped function does on its i-th invocation
    max_retries,     \* retry(max_retries=...)
    initial_wait,    \* retry(initial_wait=...)
    backoff_factor,  \* retry(backoff_factor=...)
    exceptions,      \* retry(exceptions=...)
    w,               \* the running wrapper_retry call: its locals and its outcome
    \* ---- chunker, stand-alone (SpecChunk) ----
    text,            \* split_text_into_chunks(text, ...)
    chunk_size,      \* split_text_into_chunks(..., chunk_size, ...)
    chunk_by,        \* split_text_into_chunks(..., chunk_by)
    chunks,          \* list(split_text_into_chunks(...)): not yet run, a list, or an exception
    \* ---- the Streamlit application (Spec) ----
    provider_choice, \* streamlit_app.py:48  selectbox
    fallback_excs,   \* the provider module fell back to (Exception,) at import
    env_vars,        \* streamlit_app.py:29  provider -> API key ("" when unset)
    chunk_size_input,\* streamlit_app.py:240 number_input
    file_contents,   \* st.session_state.file_contents: an insertion-ordered dict
    uploaded_files,  \* st.session_state.uploaded_files
    results,         \* st.session_state.results: an insertion-ordered dict
    processing,      \* st.session_state.processing
    cache,           \* the st.cache_data store of get_cached_response
    pc,              \* where the Process Text handler stands
    i,               \* index of the file of the loop of line 301 (1-based)
    split_chunks,    \* line 324
    chunk_results,   \* the local list `results` of line 329
    current_step,    \* line 294
    total_steps,     \* line 293
    processed,       \* line 295
    clicks,          \* history: the user's actions so far in the session
    prev_results,    \* history: the keys of results when Process Text was clicked
    log              \* history: how each chunk of the current run was resolved

rvars == <<script, max_retries, initial_wait, backoff_factor, exceptions, w>>

cvars == <<text, chunk_size, chunk_by, chunks>>

settings == <<provider_choice, fallback_excs, env_vars>>

session == <<file_contents, uploaded_files, results, processing>>

locals == <<pc, i, split_chunks, chunk_results, current_step, total_steps, processed>>

history == <<clicks, prev_results, log>>

avars == <<settings, chunk_size_input, session, cache, locals, history>>

vars == <<rvars, cvars, avars>>

(***************************************************************************)
(* Bounds of the model.                                                    *)
(***************************************************************************)
MaxRetriesBound == 3
MaxWait == 2
MaxBackoff == 2
MaxTextLen == 5
MaxChunkSize == 2
MaxClicks == 4

(***************************************************************************)
(* utils/retry_decorator.py                                                *)
(***************************************************************************)
FailedMarker == <<"[Failed to process this chunk.]">>

Return(v) == [type |-> "return", val |-> v]
Raise(e)  == [type |-> "raise",  val |-> e]

\* utils/file_utils.py handle_error, lines 70-80: what becomes of the write to
\* the log file
SinkOutcomes == {"written", "enospc", "oserror"}

\* a handle_error without the try around the write to the log file
HandleErrorUnguarded(sink) ==
    IF sink = "written" THEN Return("logged") ELSE Raise("OSError")

\* handle_error: the message is shown and kept in the error history; an
\* OSError of the write to the log file is caught and shown in the sidebar
HandleError(sink) ==
    IF sink = "written" THEN Return("logged")
    ELSE IF sink = "enospc" THEN Return("shown: no space left on device")
    ELSE Return("shown: OS error while logging")

\* line 17-18: the locals of a fresh wrapper_retry call; `calls`, `sleeps`,
\* `logged` and `lost` record the invocations of the wrapped function, the
\* sleeps, the calls of handle_error and whether one of them lost its line
\* of the log file
WrapperStart(iw) ==
    [retries |-> 0, wait_time |-> iw, status |-> "running", value |-> <<>>,
     calls |-> 0, sleeps |-> <<>>, logged |-> 0, lost |-> FALSE]

\* line 19: while retries < max_retries
LoopCond(r, m) == r < m

\* a retry counter that a failure leaves as it was
NextRetriesStuck(r) == r

\* a retry counter that advances by two per failure
NextRetriesSkipsOne(r) == r + 2

\* line 23: retries += 1
NextRetries(r) == r + 1

\* an exhaustion test that gives up one failure early
ExhaustedOneEarly(r, m) == r >= m - 1

\* line 24: if retries == max_retries
Exhausted(r, m) == r = m

\* a wait that grows by addition
NextWaitAdds(t, b) == t + b

\* line 29: wait_time *= backoff_factor
NextWait(t, b) == t * b

\* an except clause that catches every exception
CatchesAll(excs, e) == TRUE

\* line 22: except exceptions as e   (isinstance against the tuple; every
\* exception is an instance of Exception)
Catches(excs, e) == e \in excs \/ "Exception" \in excs

\* lines 20-29: one iteration of the loop, the wrapped function doing `res`
\* and the log file `sink`; an exception of handle_error (lines 25, 27) would
\* leave the except clause and the wrapper
WrapperIter(st, res, m, b, excs, sink) ==
    IF res.type = "return"
    THEN [st EXCEPT !.status = "returned", !.value = res.val, !.calls = @ + 1]
    ELSE IF Catches(excs, res.val)
    THEN LET r == NextRetries(st.retries) IN
         IF HandleError(sink).type = "raise"
         THEN [st EXCEPT !.retries = r, !.status = "raised",
                         !.value = HandleError(sink).val, !.calls = @ + 1]
         ELSE IF Exhausted(r, m)
         THEN [st EXCEPT !.retries = r, !.status = "returned",
                         !.value = FailedMarker, !.calls = @ + 1,
                         !.logged = @ + 1, !.lost = @ \/ sink # "written"]
         ELSE [st EXCEPT !.retries = r, !.calls = @ + 1, !.logged = @ + 1,
                         !.lost = @ \/ sink # "written",
                         !.sleeps = Append(@, st.wait_time),
                         !.wait_time = NextWait(st.wait_time, b)]
    ELSE [st EXCEPT !.status = "raised", !.value = res.val, !.calls = @ + 1]

\* line 30: the loop ended without a return
WrapperFallThrough(st) ==
    [st EXCEPT !.status = "returned", !.value = FailedMarker]

(***************************************************************************)
(* utils/text_processing.py: split_text_into_chunks                        *)
(***************************************************************************)
Min(a, b) == IF a < b THEN a ELSE b

Whitespace == {" ", "\n"}

\* str.split(): the maximal runs of non-whitespace characters, in order
RECURSIVE WordsAcc(_, _, _)
WordsAcc(s, cur, acc) ==
    IF s = <<>>
    THEN IF cur = <<>> THEN acc ELSE Append(acc, cur)
    ELSE IF Head(s) \in Whitespace
         THEN WordsAcc(Tail(s), <<>>, IF cur = <<>> THEN acc ELSE Append(acc, cur))
         ELSE WordsAcc(Tail(s), Append(cur, Head(s)), acc)

\* line 31: words = text.split()
Words(s) == WordsAcc(s, <<>>, <<>>)

\* str.split('\n\n'): cut at every occurrence of two newlines, scanning from
\* the left; empty pieces are kept, and the empty string gives one empty piece
RECURSIVE ParagraphsAcc(_, _, _)
ParagraphsAcc(s, cur, acc) ==
    IF s = <<>>
    THEN Append(acc, cur)
    ELSE IF Len(s) >= 2 /\ s[1] = "\n" /\ s[2] = "\n"
         THEN ParagraphsAcc(SubSeq(s, 3, Len(s)), <<>>, Append(acc, cur))
         ELSE ParagraphsAcc(Tail(s), Append(cur, Head(s)), acc)

\* line 39: paragraphs = text.split('\n\n')
Paragraphs(s) == ParagraphsAcc(s, <<>>, <<>>)

RECURSIVE LStrip(_)
LStrip(s) == IF s # <<>> /\ Head(s) \in Whitespace THEN LStrip(Tail(s)) ELSE s

RECURSIVE RStrip(_)
RStrip(s) ==
    IF s # <<>> /\ s[Len(s)] \in Whitespace THEN RStrip(SubSeq(s, 1, Len(s) - 1)) ELSE s

\* nltk.sent_tokenize, as the locale-naive rule: a sentence ends at a "."
\* that is followed by whitespace and more text; the whitespace between two
\* sentences belongs to neither, the last sentence loses its trailing
\* whitespace, and an empty last sentence is dropped
RECURSIVE SentAcc(_, _, _)
SentAcc(s, cur, acc) ==
    IF s = <<>>
    THEN IF RStrip(cur) = <<>> THEN acc ELSE Append(acc, RStrip(cur))
    ELSE IF /\ Head(s) = "."
            /\ Len(s) >= 2
            /\ s[2] \in Whitespace
            /\ LStrip(Tail(s)) # <<>>
         THEN SentAcc(LStrip(Tail(s)), <<>>, Append(acc, Append(cur, ".")))
         ELSE SentAcc(Tail(s), Append(cur, Head(s)), acc)

\* line 35: sentences = sent_tokenize(text)
SentTokenize(s) == SentAcc(s, <<>>, <<>>)

\* ' '.join(items)
RECURSIVE JoinSpace(_)
JoinSpace(items) ==
    IF items = <<>> THEN <<>>
    ELSE IF Len(items) = 1 THEN items[1]
    ELSE items[1] \o <<" ">> \o JoinSpace(Tail(items))

\* a slice that stops one item early
SliceOneShort(items, from, n) == SubSeq(items, from + 1, Min(from + n - 1, Len(items)))

\* items[from:from + n] for 0 <= from, 0 <= n
Slice(items, from, n) == SubSeq(items, from + 1, Min(from + n, Len(items)))

\* range(0, n, step) for step >= 1, as the sequence of its values
RangeFrom0(n, step) == [k \in 1..((n + step - 1) \div step) |-> (k - 1) * step]

\* lines 32-33 and 36-37:
\*   for i in range(0, len(items), chunk_size): yield ' '.join(items[i:i + chunk_size])
\* range() raises ValueError for a step of 0 and is empty for a negative step
GroupJoin(items, size) ==
    IF size = 0 THEN Raise("ValueError")
    ELSE IF size < 0 THEN Return(<<>>)
    ELSE LET starts == RangeFrom0(Len(items), size) IN
         Return([k \in 1..Len(starts) |-> JoinSpace(Slice(items, starts[k], size))])

\* lines 29-41, consumed by list(...); a chunk_by that matches no branch
\* yields nothing
SplitTextIntoChunks(t, size, by) ==
    IF by = "words" THEN GroupJoin(Words(t), size)
    ELSE IF by = "sentences" THEN GroupJoin(SentTokenize(t), size)
    ELSE IF by = "paragraphs" THEN Return(Paragraphs(t))
    ELSE Return(<<>>)

(***************************************************************************)
(* providers/*.py: one request of each provider adapter                    *)
(***************************************************************************)
Providers == {"Anthropic", "Gemini", "OpenAI"}

\* what the remote service, or the local machine, does with one request; a
\* response without content parts ("no_parts") is handled by the adapters
\* below like the empty response and is not among the outcomes explored
RawOutcomes ==
    {"ok", "empty", "rejected", "rate_limited", "unavailable", "api_error", "enospc"}

\* @retry(max_retries=10, initial_wait=2, backoff_factor=2, ...)
ProviderMaxRetries == 10
ProviderInitialWait == 2
ProviderBackoff == 2

\* the text a provider answers a request with
Echo(combined_prompt) == <<"ECHO:">> \o combined_prompt

GeminiBlocked == <<"[Content blocked due to safety concerns]">>
GeminiNoParts == <<"[No content parts available from Gemini.]">>
GeminiNoCandidates == <<"[No candidates available or response was blocked.]">>

AnthropicExceptions == {"CurlError", "HTTPError", "ConnectionError", "Timeout"}
OpenAIExceptions ==
    {"RateLimitError", "APIConnectionError", "Timeout", "ContentPolicyViolationError"}
GeminiExceptions ==
    {"RateLimitError", "APIConnectionError", "Timeout", "GenerativeAIError"}
FallbackExceptions == {"Exception"}

\* the `exceptions` argument of each adapter's @retry; fb: the import of the
\* SDK's exception classes failed and the module fell back to (Exception,)
ProviderExceptions(p, fb) ==
    IF p = "Anthropic" THEN AnthropicExceptions
    ELSE IF fb THEN FallbackExceptions
    ELSE IF p = "OpenAI" THEN OpenAIExceptions
    ELSE GeminiExceptions

\* generate_with_anthropic: status 200 without content raises ValueError,
\* which `except Exception` logs and re-raises; every other status raises
\* HTTPError; an OSError is re-raised
GenerateWithAnthropic(prompt, raw) ==
    CASE raw = "ok" -> Return(Echo(prompt))
      [] raw \in {"empty", "no_parts"} -> Raise("ValueError")
      [] raw \in {"rate_limited", "rejected", "api_error"} -> Raise("HTTPError")
      [] raw = "unavailable" -> Raise("ConnectionError")
      [] raw = "enospc" -> Raise("OSError")

\* generate_with_openai; after the fallback import the names RateLimitError,
\* APIConnectionError, ... are unbound, so matching any exception against the
\* first except clause raises NameError
GenerateWithOpenAI(prompt, raw, fb) ==
    IF raw = "ok" THEN Return(Echo(prompt))
    ELSE IF fb THEN Raise("NameError")
    ELSE CASE raw \in {"empty", "no_parts"} -> Raise("ValueError")
           [] raw = "rate_limited" -> Raise("RateLimitError")
           [] raw = "unavailable" -> Raise("APIConnectionError")
           [] raw = "rejected" -> Raise("ContentPolicyViolationError")
           [] raw = "api_error" -> Raise("APIError")
           [] raw = "enospc" -> Raise("OSError")

\* generate_with_gemini: a response without usable text is returned as a
\* bracketed text, not raised
GenerateWithGemini(prompt, raw) ==
    CASE raw = "ok" -> Return(Echo(prompt))
      [] raw = "empty" -> Return(GeminiBlocked)
      [] raw = "no_parts" -> Return(GeminiNoParts)
      [] raw = "rejected" -> Return(GeminiNoCandidates)
      [] raw = "rate_limited" -> Raise("RateLimitError")
      [] raw = "unavailable" -> Raise("APIConnectionError")
      [] raw = "api_error" -> Raise("GenerativeAIError")
      [] raw = "enospc" -> Raise("OSError")

\* get_cached_response lines 15-22: the adapter the provider choice selects
Generate(p, fb, prompt, raw) ==
    IF p = "OpenAI" THEN GenerateWithOpenAI(prompt, raw, fb)
    ELSE IF p = "Anthropic" THEN GenerateWithAnthropic(prompt, raw)
    ELSE GenerateWithGemini(prompt, raw)

\* the adapters call handle_error on every path that does not return the
\* provider's text, before they raise or return; the one exception is the
\* OpenAI adapter after the fallback import, where a failed request raises
\* NameError at the first except clause before any handler runs
AdapterLogs(p, fb, raw) ==
    /\ raw # "ok"
    /\ (p = "OpenAI" /\ fb) => raw \in {"empty", "no_parts"}

\* one request of the selected adapter with its calls of handle_error, the
\* log file doing `sink`; an exception of handle_error inside the adapter's
\* try statement would take the place of the adapter's own outcome
GenerateLogged(p, fb, prompt, raw, sink) ==
    IF AdapterLogs(p, fb, raw) /\ HandleError(sink).type = "raise"
    THEN IF p = "OpenAI" /\ fb THEN Raise("NameError") ELSE HandleError(sink)
    ELSE Generate(p, fb, prompt, raw)

\* the Anthropic request carries api_keys["ANTHROPIC_API_KEY"]; without a key
\* the service answers with an error status, if it is reached at all
RawOutcomesFor(p, keys) ==
    IF p = "Anthropic" /\ keys[p] = ""
    THEN {"api_error", "rate_limited", "unavailable", "enospc"}
    ELSE RawOutcomes

(***************************************************************************)
(* utils/text_processing.py: get_cached_response under @st.cache_data      *)
(***************************************************************************)
\* st.cache_data keys an entry by every argument of the call
CacheKey(provider, prompt, chunk, size, model, api_keys) ==
    [provider |-> provider, prompt |-> prompt, chunk |-> chunk,
     chunk_size |-> size, model |-> model, api_keys |-> api_keys]

CacheHas(c, k) == \E e \in c : e.key = k

CacheGet(c, k) == (CHOOSE e \in c : e.key = k).val

\* a cache that keeps nothing
CacheStoreNothing(c, k, v) == c

\* a value the function returned is stored; an exception stores nothing
CacheStore(c, k, v) == c \cup {[key |-> k, val |-> v]}

(***************************************************************************)
(* streamlit_app.py                                                        *)
(***************************************************************************)
FileNames == {"f1", "f2"}
FileTexts == {<<>>, <<"a">>, <<"a", " ", "b">>}

\* line 240: the values the chunk size input takes; the larger one stands for
\* the default, a size no file of FileTexts reaches
ChunkSizeInputs == {1, 2}
DefaultChunkSize == CHOOSE n \in ChunkSizeInputs : \A m \in ChunkSizeInputs : m <= n

\* line 123: the prompt template in the text area
EditedPrompt == <<"P:">>

\* lines 54-60: the model selectbox, at its first option
ModelChoice(p) ==
    IF p = "OpenAI" THEN "gpt-3.5-turbo"
    ELSE IF p = "Anthropic" THEN "claude-3-5-sonnet-20240620"
    ELSE "gemini-1.5-flash"

\* an insertion-ordered dict: a sequence of [name, val] with distinct names
DictKeys(d) == {d[n].name : n \in 1..Len(d)}

DictGet(d, k) == d[CHOOSE n \in 1..Len(d) : d[n].name = k].val

DictSet(d, k, v) ==
    IF k \in DictKeys(d)
    THEN [n \in 1..Len(d) |-> IF d[n].name = k THEN [name |-> k, val |-> v] ELSE d[n]]
    ELSE Append(d, [name |-> k, val |-> v])

\* "\n".join(items)
RECURSIVE JoinNL(_)
JoinNL(items) ==
    IF items = <<>> THEN <<>>
    ELSE IF Len(items) = 1 THEN items[1]
    ELSE items[1] \o <<"\n">> \o JoinNL(Tail(items))

\* len(list(split_text_into_chunks(content, chunk_size_input, chunk_by)))
ChunksOf(content, size, by) == SplitTextIntoChunks(content, size, by).val

\* a count of one chunk per file
SumChunksOnePerFile(d, size, by) == Len(d)

RECURSIVE SumChunks(_, _, _)
SumChunks(d, size, by) ==
    IF d = <<>> THEN 0
    ELSE Len(ChunksOf(Head(d).val, size, by)) + SumChunks(Tail(d), size, by)

\* a response put in front of the earlier ones
PrependResponse(rs, response) == <<response>> \o rs

\* line 350: results.append(response)
AppendResponse(rs, response) == Append(rs, response)

\* the placeholder of process_text_stream's outer handler instead
OnExceptionStreamText(e) == <<"[Processing failed due to an unexpected error.]">>

\* lines 345-347: an exception of get_cached_response becomes the marker
OnException(e) == FailedMarker

IdleWrapper == [WrapperStart(ProviderInitialWait) EXCEPT !.status = "idle"]

\* the session state of lines 161-177 and the handler at rest
SessionFresh ==
    /\ file_contents = <<>> /\ uploaded_files = <<>> /\ results = <<>>
    /\ processing = FALSE
    /\ cache = {}
    /\ pc = "idle" /\ i = 0 /\ split_chunks = <<>> /\ chunk_results = <<>>
    /\ current_step = 0 /\ total_steps = 0 /\ processed = 0
    /\ clicks = 0 /\ prev_results = {} /\ log = <<>>

\* the application is not part of SpecRetry and SpecChunk
AppNotStarted ==
    /\ provider_choice = "Anthropic" /\ fallback_excs = FALSE
    /\ env_vars = [p \in Providers |-> ""]
    /\ chunk_size_input = 1
    /\ SessionFresh

(***************************************************************************)
(* SpecChunk: one call of list(split_text_into_chunks(text, size, by)).    *)
(***************************************************************************)
Alphabet == {"a", "b", " ", "\n", "."}
ChunkModes == {"words", "sentences", "paragraphs"}

RECURSIVE SeqsUpTo(_, _)
SeqsUpTo(S, n) ==
    IF n = 0 THEN {<<>>}
    ELSE LET shorter == SeqsUpTo(S, n - 1) IN
         shorter \cup {Append(q, c) : q \in {x \in shorter : Len(x) = n - 1}, c \in S}

NotRun == [type |-> "none", val |-> <<>>]

InitChunk ==
    /\ text \in SeqsUpTo(Alphabet, MaxTextLen)
    /\ chunk_size \in -1..MaxChunkSize
    /\ chunk_by \in ChunkModes \cup {"other"}
    /\ chunks = NotRun
    /\ max_retries = 0 /\ initial_wait = 1 /\ backoff_factor = 1
    /\ exceptions = {} /\ script = <<>> /\ w = WrapperStart(1)
    /\ AppNotStarted

Split ==
    /\ chunks = NotRun
    /\ chunks' = SplitTextIntoChunks(text, chunk_size, chunk_by)
    /\ UNCHANGED <<text, chunk_size, chunk_by>>
    /\ UNCHANGED <<rvars, avars>>

NextChunk == Split

SpecChunk == InitChunk /\ [][NextChunk]_vars

\* C7: the empty text yields zero chunks in every chunk mode, for every
\* chunk size >= 1.
C7_EmptyTextNoChunks ==
    (text = <<>> /\ chunk_size >= 1 /\ chunk_by \in ChunkModes /\ chunks # NotRun) =>
        (chunks.type = "return" /\ Len(chunks.val) = 0)

(***************************************************************************)
(* SpecRetry: one call of a function decorated with @retry(...).           *)
(***************************************************************************)
RetryValues == {<<"v1">>, <<"v2">>}
RetryExcs == {"ExcA", "ExcB"}
RetryOutcomes == {Return(v) : v \in RetryValues} \cup {Raise(e) : e \in RetryExcs}

InitRetry ==
    /\ max_retries \in 0..MaxRetriesBound
    /\ initial_wait \in 1..MaxWait
    /\ backoff_factor \in 1..MaxBackoff
    /\ exceptions \in {{"ExcA"}, {"ExcA", "ExcB"}, {"Exception"}}
    /\ script \in [1..MaxRetriesBound -> RetryOutcomes]
    /\ w = WrapperStart(initial_wait)
    /\ text = <<>> /\ chunk_size = 1 /\ chunk_by = "words" /\ chunks = NotRun
    /\ AppNotStarted

RetryCall ==
    /\ w.status = "running"
    /\ LoopCond(w.retries, max_retries)
    /\ \E sink \in SinkOutcomes :
          w' = WrapperIter(w, script[w.calls + 1], max_retries, backoff_factor,
                           exceptions, sink)
    /\ UNCHANGED <<script, max_retries, initial_wait, backoff_factor, exceptions>>
    /\ UNCHANGED <<cvars, avars>>

RetryFallThrough ==
    /\ w.status = "running"
    /\ ~LoopCond(w.retries, max_retries)
    /\ w' = WrapperFallThrough(w)
    /\ UNCHANGED <<script, max_retries, initial_wait, backoff_factor, exceptions>>
    /\ UNCHANGED <<cvars, avars>>

NextRetry == RetryCall \/ RetryFallThrough

SpecRetry == InitRetry /\ [][NextRetry]_vars

\* the wrapped function raises a retryable exception on invocations 1..k
FailsRetryably(k) ==
    \A n \in 1..k :
        /\ script[n].type = "raise"
        /\ (script[n].val \in exceptions \/ exceptions = {"Exception"})

\* C1: with max_retries = N >= 1 and a function that raises a retryable
\* exception on every invocation, the wrapper keeps invoking it while fewer
\* than N invocations were made, and ends after exactly N invocations by
\* returning the failure marker as a normal value; nothing propagates.
C1_ExhaustionReturnsMarker ==
    (max_retries >= 1 /\ FailsRetryably(max_retries)) =>
        /\ w.status # "raised"
        /\ w.status = "running" => w.calls < max_retries /\ ENABLED RetryCall
        /\ w.status = "returned" =>
              w.calls = max_retries /\ w.value = FailedMarker

C1_Witness ==
    /\ max_retries = 3
    /\ FailsRetryably(max_retries)
    /\ w.status = "returned"
    /\ w.calls = 3

\* C2: a function that raises a retryable exception on its first k
\* invocations and returns v on invocation k+1, with max_retries > k, makes
\* the wrapper return exactly v after exactly k+1 invocations.
C2_SuccessAfterKFailures ==
    \A k \in 0..(max_retries - 1) :
        (FailsRetryably(k) /\ script[k + 1].type = "return") =>
            /\ w.status # "raised"
            /\ w.status = "running" => w.calls <= k /\ ENABLED RetryCall
            /\ w.status = "returned" =>
                  w.calls = k + 1 /\ w.value = script[k + 1].val

C2_Witness ==
    /\ max_retries = 3
    /\ FailsRetryably(2)
    /\ script[3].type = "return"
    /\ w.status = "returned"
    /\ w.value = script[3].val
    /\ w.calls = 3

(***************************************************************************)
(* Spec: a session of the Streamlit application.  The chat buffer, the     *)
(* progress widgets and the error history are display only and are left    *)
(* out; the provider is selected when the session starts.  Only the        *)
(* Anthropic adapter is handed a key of env_vars, so the sessions of the   *)
(* other two providers are taken with their keys set.                      *)
(***************************************************************************)
Init ==
    /\ provider_choice \in Providers
    /\ fallback_excs \in BOOLEAN
    /\ provider_choice = "Anthropic" => fallback_excs = FALSE
    /\ env_vars \in {[p \in Providers |-> ""], [p \in Providers |-> "key"]}
    /\ provider_choice # "Anthropic" => env_vars[provider_choice] = "key"
    /\ chunk_size_input = DefaultChunkSize
    /\ chunk_by = "words"
    /\ SessionFresh
    /\ max_retries = ProviderMaxRetries
    /\ initial_wait = ProviderInitialWait
    /\ backoff_factor = ProviderBackoff
    /\ exceptions = ProviderExceptions(provider_choice, fallback_excs)
    /\ script = <<>>
    /\ w = IdleWrapper
    /\ text = <<>> /\ chunk_size = 1 /\ chunks = NotRun

fixed == <<settings, script, max_retries, initial_wait, backoff_factor, exceptions,
           text, chunk_size, chunks>>

\* the conditions under which the script runs its handlers
\* line 189: if uploaded_files and not st.session_state.processing
UploadGuard == ~processing
\* line 201: if st.session_state.file_contents and not st.session_state.processing
ClearGuard == file_contents # <<>> /\ ~processing
\* lines 213 and 233
SaveChangesGuard == file_contents # <<>> /\ ~processing
\* line 152: Save Current Prompt
SavePromptGuard == ~processing
\* a Process Text button that ignores the flag
ProcessGuardNoFlag == TRUE
\* line 254: if st.button("Process Text") and not st.session_state.processing
ProcessGuard == ~processing

\* one more action of the user, while the session lasts
Click == clicks < MaxClicks /\ clicks' = clicks + 1

\* an upload that stores the file whether or not its name is known
UploadOverwrites(name, content) ==
    /\ pc = "idle"
    /\ UploadGuard
    /\ file_contents' = DictSet(file_contents, name, content)
    /\ uploaded_files' = Append(uploaded_files, name)
    /\ Click
    /\ UNCHANGED <<fixed, chunk_by, chunk_size_input, results, processing, cache,
                   locals, prev_results, log, w>>

\* lines 189-198: a file of the uploader is stored unless its name is known
Upload(name, content) ==
    /\ pc = "idle"
    /\ UploadGuard
    /\ IF name \notin DictKeys(file_contents)
       THEN /\ file_contents' = DictSet(file_contents, name, content)
            /\ uploaded_files' = Append(uploaded_files, name)
       ELSE UNCHANGED <<file_contents, uploaded_files>>
    /\ Click
    /\ UNCHANGED <<fixed, chunk_by, chunk_size_input, results, processing, cache,
                   locals, prev_results, log, w>>

\* lines 201-209: Clear Files and Outputs
ClearFiles ==
    /\ pc = "idle"
    /\ ClearGuard
    /\ uploaded_files' = <<>>
    /\ results' = <<>>
    /\ file_contents' = <<>>
    /\ Click
    /\ UNCHANGED <<fixed, chunk_by, chunk_size_input, processing, cache, locals,
                   prev_results, log, w>>

\* lines 213-236: Save Changes of the selected file
SaveChanges(name, content) ==
    /\ pc = "idle"
    /\ SaveChangesGuard
    /\ name \in DictKeys(file_contents)
    /\ file_contents' = DictSet(file_contents, name, content)
    /\ Click
    /\ UNCHANGED <<fixed, chunk_by, chunk_size_input, uploaded_files, results,
                   processing, cache, locals, prev_results, log, w>>

\* lines 152-157: Save Current Prompt writes the prompt file, which no other
\* part of the session reads back
SavePrompt ==
    /\ pc = "idle"
    /\ SavePromptGuard
    /\ Click
    /\ UNCHANGED <<fixed, chunk_by, chunk_size_input, session, cache, locals,
                   prev_results, log, w>>

\* line 240: the chunk size number_input (min_value=1)
SetChunkSize(n) ==
    /\ pc = "idle"
    /\ chunk_size_input' = n
    /\ Click
    /\ UNCHANGED <<fixed, chunk_by, session, cache, locals, prev_results, log, w>>

\* line 241: the chunk_by selectbox
SelectChunkBy(by) ==
    /\ pc = "idle"
    /\ chunk_by' = by
    /\ Click
    /\ UNCHANGED <<fixed, chunk_size_input, session, cache, locals, prev_results,
                   log, w>>

\* lines 100-101 and file_utils.clear_cache: st.cache_data.clear()
ClearCache ==
    /\ pc = "idle"
    /\ cache' = {}
    /\ Click
    /\ UNCHANGED <<fixed, chunk_by, chunk_size_input, session, locals, prev_results,
                   log, w>>

\* lines 254-298: the Process Text button starts a run
ProcessText ==
    /\ pc = "idle"
    /\ ProcessGuard
    /\ file_contents # <<>>
    /\ processing' = TRUE
    /\ results' = <<>>
    /\ total_steps' = Len(file_contents)
                       + SumChunks(file_contents, chunk_size_input, chunk_by)
                       + Len(file_contents)
    /\ current_step' = 0
    /\ processed' = 0
    /\ i' = 1
    /\ pc' = "file"
    /\ Click
    /\ prev_results' = DictKeys(results)
    /\ log' = <<>>
    /\ UNCHANGED <<fixed, chunk_by, chunk_size_input, file_contents, uploaded_files,
                   cache, split_chunks, chunk_results, w>>

\* lines 301-329: the next file is skipped when it has a result, split otherwise
FileStep ==
    /\ pc = "file"
    /\ i <= Len(file_contents)
    /\ LET file_name == file_contents[i].name
           file_content == file_contents[i].val
           cs == ChunksOf(file_content, chunk_size_input, chunk_by)
       IN IF file_name \in DictKeys(results)
          THEN /\ current_step' = current_step + (Len(cs) + 1)
               /\ i' = i + 1
               /\ UNCHANGED <<pc, split_chunks, chunk_results>>
          ELSE /\ split_chunks' = cs
               /\ current_step' = current_step + 1
               /\ chunk_results' = <<>>
               /\ pc' = "chunk"
               /\ UNCHANGED i
    /\ UNCHANGED <<fixed, chunk_by, chunk_size_input, session, cache, total_steps,
                   processed, history, w>>

\* the chunks of a file taken from the last one backwards
CurrentChunkFromEnd == split_chunks[Len(split_chunks) - Len(chunk_results)]

\* the arguments of lines 337-344
CurrentChunk == split_chunks[Len(chunk_results) + 1]

CurrentKey ==
    CacheKey(provider_choice, EditedPrompt, CurrentChunk, chunk_size_input,
             ModelChoice(provider_choice), env_vars)

LogEntry(how, response) ==
    [file |-> file_contents[i].name, chunk |-> CurrentChunk, how |-> how,
     response |-> response]

\* lines 332-380 for a chunk the cache holds; for any other chunk the call
\* enters get_cached_response and the wrapper of the adapter (lines 17-18)
ChunkLookup ==
    /\ pc = "chunk"
    /\ Len(chunk_results) < Len(split_chunks)
    /\ IF CacheHas(cache, CurrentKey)
       THEN LET response == CacheGet(cache, CurrentKey) IN
            /\ chunk_results' = AppendResponse(chunk_results, response)
            /\ current_step' = current_step + 1
            /\ log' = Append(log, LogEntry("hit", response))
            /\ UNCHANGED <<pc, w>>
       ELSE /\ pc' = "call"
            /\ w' = WrapperStart(initial_wait)
            /\ UNCHANGED <<chunk_results, current_step, log>>
    /\ UNCHANGED <<fixed, chunk_by, chunk_size_input, session, cache, i, split_chunks,
                   total_steps, processed, clicks, prev_results>>

\* one iteration of the wrapper's loop around the adapter's request, the
\* service doing `raw` and the log file `sink`: the values of the variables
\* after it.  When the iteration ends the wrapper's call, get_cached_response
\* returns (the value is cached) or raises (lines 24-27), and lines 345-380
\* finish the chunk; an exception of handle_error on line 346 would leave the
\* handler of Process Text.
AttemptPost(raw, sink) ==
    LET nw == WrapperIter(w,
                          GenerateLogged(provider_choice, fallback_excs,
                                         EditedPrompt \o CurrentChunk, raw, sink),
                          max_retries, backoff_factor, exceptions, sink)
        response == IF nw.status = "returned" THEN nw.value
                    ELSE OnException(nw.value)
        how == IF nw.status = "raised" THEN "raised"
               ELSE IF nw.retries = max_retries THEN "exhausted"
               ELSE "returned"
        here == [w |-> w, pc |-> pc, cache |-> cache, chunk_results |-> chunk_results,
                 log |-> log, current_step |-> current_step]
    IN IF nw.status = "running"
       THEN [here EXCEPT !.w = [nw EXCEPT !.lost = FALSE]]
       ELSE IF nw.status = "raised" /\ HandleError(sink).type = "raise"
       THEN [here EXCEPT !.w = IdleWrapper, !.pc = "aborted"]
       ELSE [w |-> IdleWrapper,
             pc |-> "chunk",
             cache |-> IF nw.status = "returned"
                       THEN CacheStore(cache, CurrentKey, nw.value)
                       ELSE cache,
             chunk_results |-> AppendResponse(chunk_results, response),
             log |-> Append(log, LogEntry(how, response)),
             current_step |-> current_step + 1]

\* the variables take the values of `post`; the rest of the state is left alone
AttemptTo(post) ==
    /\ pc = "call"
    /\ w.status = "running"
    /\ LoopCond(w.retries, max_retries)
    /\ w' = post.w
    /\ pc' = post.pc
    /\ cache' = post.cache
    /\ chunk_results' = post.chunk_results
    /\ log' = post.log
    /\ current_step' = post.current_step
    /\ UNCHANGED <<fixed, chunk_by, chunk_size_input, session, i, split_chunks,
                   total_steps, processed, clicks, prev_results>>

ProviderAttemptWith(raw, sink) ==
    /\ raw \in RawOutcomesFor(provider_choice, env_vars)
    /\ AttemptTo(AttemptPost(raw, sink))

\* the attempt, for whatever the service and the log file do
ProviderAttempt ==
    /\ pc = "call"
    /\ \E post \in {AttemptPost(raw, sink) :
                        raw \in RawOutcomesFor(provider_choice, env_vars),
                        sink \in SinkOutcomes} : AttemptTo(post)

\* lines 382-400: the results of the file are merged and stored
Merge ==
    /\ pc = "chunk"
    /\ Len(chunk_results) = Len(split_chunks)
    /\ results' = DictSet(results, file_contents[i].name, JoinNL(chunk_results))
    /\ current_step' = current_step + 1
    /\ processed' = processed + 1
    /\ i' = i + 1
    /\ pc' = "file"
    /\ UNCHANGED <<fixed, chunk_by, chunk_size_input, file_contents, uploaded_files,
                   processing, cache, split_chunks, chunk_results, total_steps,
                   history, w>>

\* lines 402-404: the run ends; st.rerun() starts the script afresh, and the
\* locals of the handler are gone
Finish ==
    /\ pc = "file"
    /\ i > Len(file_contents)
    /\ processing' = FALSE
    /\ pc' = "idle"
    /\ i' = 0 /\ split_chunks' = <<>> /\ chunk_results' = <<>>
    /\ current_step' = 0 /\ total_steps' = 0 /\ processed' = 0
    /\ log' = <<>>
    /\ prev_results' = {}
    /\ UNCHANGED <<fixed, chunk_by, chunk_size_input, file_contents, uploaded_files,
                   results, cache, clicks, w>>

Next ==
    \/ \E name \in FileNames, content \in FileTexts : Upload(name, content)
    \/ ClearFiles
    \/ \E name \in FileNames, content \in FileTexts : SaveChanges(name, content)
    \/ SavePrompt
    \/ \E n \in ChunkSizeInputs : SetChunkSize(n)
    \/ \E by \in ChunkModes : SelectChunkBy(by)
    \/ ClearCache
    \/ ProcessText
    \/ FileStep
    \/ ChunkLookup
    \/ ProviderAttempt
    \/ Merge
    \/ Finish

Spec == Init /\ [][Next]_vars

\* the entries of the log for one file, in order
LogOf(f) == SelectSeq(log, LAMBDA e : e.file = f)

\* the run has handled its last file and is about to end
RunComplete == pc = "file" /\ i > Len(file_contents)

\* C3 (as claimed): of two calls of get_cached_response with the same key in
\* one run, whatever the first call's outcome, the second makes no provider
\* computation and gives the same result.
C3_SecondCallNeverComputes ==
    \A m, n \in 1..Len(log) :
        (m < n /\ log[m].chunk = log[n].chunk) =>
            (log[n].how = "hit" /\ log[n].response = log[m].response)

\* C3 (amended): of two calls of get_cached_response with the same key in one
\* run, when the first call returned a value (a provider text, or the marker
\* after the retries were exhausted), the second makes no provider
\* computation and gives the same value; no call for a key enters the
\* provider computation after a call for that key has returned.
C3_SecondCallHitsAfterReturn ==
    /\ \A m, n \in 1..Len(log) :
          (m < n /\ log[m].chunk = log[n].chunk /\ log[m].how # "raised") =>
              (log[n].how = "hit" /\ log[n].response = log[m].response)
    /\ pc = "call" =>
          \A m \in 1..Len(log) :
              log[m].chunk = CurrentChunk => log[m].how = "raised"

C3_Witness ==
    \E m, n \in 1..Len(log) :
        /\ m < n
        /\ log[m].chunk = log[n].chunk
        /\ log[m].file # log[n].file
        /\ log[m].how = "exhausted"
        /\ log[n].how = "hit"

\* C4: a request that agrees with a stored entry on provider, model, prompt
\* and chunk is answered from the cache, without a provider invocation,
\* whatever chunk size and credentials came with either request.
C4_KeyIsProviderModelPromptChunk ==
    pc = "call" =>
        ~ \E e \in cache :
            /\ e.key.provider = provider_choice
            /\ e.key.model = ModelChoice(provider_choice)
            /\ e.key.prompt = EditedPrompt
            /\ e.key.chunk = CurrentChunk

\* C5: during a run, the merged output stored for a file is the newline-join
\* of the responses obtained for its chunks, one per chunk the chunker emits
\* for the file, in the chunker's order.
C5_MergedIsOrderedJoin ==
    processing =>
        \A n \in 1..Len(results) :
            LET entries == LogOf(results[n].name)
                cs == ChunksOf(DictGet(file_contents, results[n].name),
                               chunk_size_input, chunk_by)
            IN /\ Len(entries) = Len(cs)
               /\ \A k \in 1..Len(cs) : entries[k].chunk = cs[k]
               /\ results[n].val = JoinNL([k \in 1..Len(cs) |-> entries[k].response])

C5_Witness ==
    /\ processing
    /\ \E n \in 1..Len(results) :
          LET entries == LogOf(results[n].name) IN
          /\ Len(entries) = 2
          /\ entries[1].response # entries[2].response
          /\ results[n].val = entries[1].response \o <<"\n">> \o entries[2].response

\* the handler of Process Text is inside its loops, at a step whose guard
\* holds: the file loop (FileStep or Finish), the chunk loop (ChunkLookup or
\* Merge), or the wrapper's loop with an iteration left (ProviderAttempt)
RunCanStep ==
    \/ pc = "file"
    \/ pc = "chunk" /\ Len(chunk_results) <= Len(split_chunks)
    \/ pc = "call" /\ w.status = "running" /\ LoopCond(w.retries, max_retries)

\* C6: a chunk whose call ends with the retries exhausted or with an
\* exception gets the failure marker as its result; the run goes on (it can
\* always take its next step), and when it completes every file has a merged
\* output and one resolved chunk per chunk of the file; a one-chunk file
\* whose chunk failed has the marker as its merged output.
C6_FailedChunkNeverAborts ==
    /\ \A n \in 1..Len(log) :
          log[n].how \in {"exhausted", "raised"} => log[n].response = FailedMarker
    /\ processing =>
          RunCanStep
    /\ RunComplete =>
          /\ processed = Len(file_contents)
          /\ \A n \in 1..Len(file_contents) :
                LET f == file_contents[n].name
                    cs == ChunksOf(file_contents[n].val, chunk_size_input, chunk_by)
                IN /\ f \in DictKeys(results)
                   /\ Len(LogOf(f)) = Len(cs)
                   /\ (Len(cs) = 1 /\ LogOf(f)[1].how \in {"exhausted", "raised"})
                         => DictGet(results, f) = FailedMarker

C6_Witness ==
    /\ RunComplete
    /\ \E m, n \in 1..Len(log) :
          /\ m < n
          /\ log[m].how = "raised"
          /\ log[m].file # log[n].file
          /\ log[n].how = "returned"
    /\ \E m \in 1..Len(log) : log[m].how = "exhausted"

\* C8: with an empty credential for the selected provider no provider
\* request is attempted.
C8_EmptyCredentialNoRequest ==
    env_vars[provider_choice] = "" => w.calls = 0

\* C9: no chunk of a file that had a result when Process Text was clicked is
\* looked up in the cache or sent to a provider by the run.
C9_ProcessedFileSkippedOnRerun ==
    pc \in {"chunk", "call"} => file_contents[i].name \notin prev_results

\* C10: an attempt that the provider answers with a content rejection or
\* with an empty response either leaves the call in the retry loop or ends
\* it through the retry loop: by the marker, after max_retries attempts.
C10_RejectionAndEmptyAreRetried ==
    [][\A raw \in {"rejected", "empty"}, sink \in SinkOutcomes :
          ProviderAttemptWith(raw, sink) =>
              \/ pc' = "call"
              \/ /\ log'[Len(log')].how = "exhausted"
                 /\ log'[Len(log')].response = FailedMarker
                 /\ w.calls + 1 = max_retries]_vars

(***************************************************************************)
(* Further properties of SpecChunk.                                        *)
(***************************************************************************)
\* C13: in words mode with chunk size S >= 1, joining the chunks with single
\* spaces gives the whitespace-normalised token sequence of the text; every
\* chunk but the last holds exactly S tokens, the last holds 1..S tokens.
C13_WordsChunksReconstruct ==
    (chunk_by = "words" /\ chunk_size >= 1 /\ chunks # NotRun) =>
        /\ chunks.type = "return"
        /\ JoinSpace(chunks.val) = JoinSpace(Words(text))
        /\ \A k \in 1..Len(chunks.val) :
              LET n == Len(Words(chunks.val[k])) IN
              IF k < Len(chunks.val) THEN n = chunk_size
              ELSE 1 <= n /\ n <= chunk_size

C13_Witness ==
    /\ chunk_by = "words"
    /\ chunk_size = 2
    /\ chunks # NotRun
    /\ Len(Words(text)) = 3
    /\ Len(chunks.val) = 2
    /\ Len(Words(chunks.val[2])) = 1

RECURSIVE FlatChunks(_, _, _)
FlatChunks(d, size, by) ==
    IF d = <<>> THEN <<>>
    ELSE LET cs == ChunksOf(Head(d).val, size, by) IN
         [k \in 1..Len(cs) |-> [file |-> Head(d).name, chunk |-> cs[k]]]
            \o FlatChunks(Tail(d), size, by)

\* the files before the one the run is at
FilesBefore(n) == {file_contents[m].name : m \in 1..(n - 1)}

\* C12: the cache lookups / provider calls of a run follow the order (file
\* upload index, chunk index); the call for a chunk is under way only when
\* the results of all earlier chunks of the file are appended; the merged
\* result of a file is stored before a chunk of the next file is handled.
C12_SequentialInOrder ==
    processing =>
        LET order == FlatChunks(file_contents, chunk_size_input, chunk_by) IN
        /\ Len(log) <= Len(order)
        /\ \A k \in 1..Len(log) :
              log[k].file = order[k].file /\ log[k].chunk = order[k].chunk
        /\ pc \in {"chunk", "call"} =>
              /\ Len(LogOf(file_contents[i].name)) = Len(chunk_results)
              /\ \A k \in 1..Len(chunk_results) :
                    LogOf(file_contents[i].name)[k].response = chunk_results[k]
              /\ FilesBefore(i) \subseteq DictKeys(results)
              /\ \A k \in 1..Len(log) :
                    log[k].file \in FilesBefore(i) \cup {file_contents[i].name}
        /\ pc = "call" =>
              /\ order[Len(log) + 1].file = file_contents[i].name
              /\ order[Len(log) + 1].chunk = CurrentChunk
        /\ pc = "file" =>
              /\ FilesBefore(i) = DictKeys(results)
              /\ \A k \in 1..Len(log) : log[k].file \in DictKeys(results)

C12_Witness ==
    /\ pc = "call"
    /\ i = 2
    /\ Len(log) = 3
    /\ log[1].file = log[2].file
    /\ log[1].chunk # log[2].chunk
    /\ log[3].file = file_contents[2].name
    /\ Len(split_chunks) = 2

\* the steps of the files before the n-th: a split, the chunks, a merge each
RECURSIVE StepsBefore(_)
StepsBefore(n) ==
    IF n <= 1 THEN 0
    ELSE StepsBefore(n - 1)
         + 2 + Len(ChunksOf(file_contents[n - 1].val, chunk_size_input, chunk_by))

\* the run is inside the handler of Process Text
InRun == pc \in {"file", "chunk", "call"}

\* C17: during a run current_step counts the steps done so far (one per file
\* split, one per chunk resolved, one per file merged), goes up by exactly
\* one with each of them and never otherwise, stays within
\* total_steps = 2 * files + chunks, and equals total_steps when the run
\* completes.
C17_StepCounter ==
    /\ [](InRun =>
            /\ total_steps = StepsBefore(Len(file_contents) + 1)
            /\ total_steps > 0
            /\ current_step = StepsBefore(i)
                   + (IF pc = "file" THEN 0 ELSE 1 + Len(chunk_results))
            /\ 0 <= current_step /\ current_step <= total_steps
            /\ RunComplete => current_step = total_steps)
    /\ [][(InRun /\ InRun') =>
            IF \/ pc = "file" /\ pc' = "chunk"
               \/ Len(chunk_results') = Len(chunk_results) + 1
               \/ pc = "chunk" /\ pc' = "file"
            THEN current_step' = current_step + 1
            ELSE current_step' = current_step]_vars

C17_Witness ==
    /\ RunComplete
    /\ Len(file_contents) = 2
    /\ total_steps = 7
    /\ current_step = 7

\* the key of the request the run makes for a chunk
KeyOf(chunk) ==
    CacheKey(provider_choice, EditedPrompt, chunk, chunk_size_input,
             ModelChoice(provider_choice), env_vars)

\* an exhausted call left the marker in the cache, a hit gave what the cache
\* holds, and no provider call is under way for a key the cache holds
MarkerCached ==
    /\ \A n \in 1..Len(log) :
          log[n].how = "exhausted" =>
              /\ log[n].response = FailedMarker
              /\ CacheHas(cache, KeyOf(log[n].chunk))
              /\ CacheGet(cache, KeyOf(log[n].chunk)) = FailedMarker
    /\ \A n \in 1..Len(log) :
          log[n].how = "hit" =>
              /\ CacheHas(cache, KeyOf(log[n].chunk))
              /\ log[n].response = CacheGet(cache, KeyOf(log[n].chunk))
    /\ pc = "call" => ~CacheHas(cache, CurrentKey)

\* C18: when the wrapper exhausts its retries for a request, the marker is
\* the chunk's result and is stored in the cache under the request's key;
\* no provider call is made for a key the cache holds, a hit on such an
\* entry gives the marker, and an entry leaves the cache only when Clear
\* Cache empties it.
C18_MarkerIsCached ==
    /\ []MarkerCached
    /\ [][cache \subseteq cache' \/ (pc = "idle" /\ ~processing /\ cache' = {})]_vars

C18_Witness ==
    /\ \E n \in 1..Len(log) :
          /\ log[n].how = "hit"
          /\ log[n].response = FailedMarker
    /\ \A n \in 1..Len(log) : log[n].how = "hit"

\* list(file_contents.keys())
KeyList(d) == [n \in 1..Len(d) |-> d[n].name]

\* C19: uploading a file whose name is a key of file_contents leaves
\* file_contents and uploaded_files as they are (content and order kept, the
\* new content dropped), and uploaded_files always lists the keys of
\* file_contents, each once, in insertion order.
C19_DuplicateUploadIgnored ==
    /\ [](/\ uploaded_files = KeyList(file_contents)
           /\ Cardinality(DictKeys(file_contents)) = Len(file_contents))
    /\ [][\A name \in FileNames, content \in FileTexts :
             (Upload(name, content) /\ name \in DictKeys(file_contents)) =>
                 UNCHANGED <<file_contents, uploaded_files>>]_vars

C19_Witness ==
    /\ uploaded_files = <<"f2", "f1">>
    /\ DictGet(file_contents, "f2") = <<"a">>
    /\ ENABLED (/\ Upload("f2", <<"a", " ", "b">>)
                /\ file_contents' = file_contents
                /\ uploaded_files' = uploaded_files)

\* one of the handlers the flag guards
GuardedHandlers ==
    \/ \E name \in FileNames, content \in FileTexts : Upload(name, content)
    \/ ClearFiles
    \/ \E name \in FileNames, content \in FileTexts : SaveChanges(name, content)
    \/ SavePrompt
    \/ ProcessText

\* the flag is True throughout a run, and under it every guarded handler is
\* disabled
HandlersDisabled ==
    /\ (InRun => processing)
    /\ (processing =>
          (/\ ~UploadGuard /\ ~ClearGuard /\ ~SaveChangesGuard
           /\ ~SavePromptGuard /\ ~ProcessGuard
           /\ ~ENABLED GuardedHandlers))

\* C20: while the processing flag is True the upload, Clear Files and
\* Outputs, Save Changes, Save Current Prompt and Process Text handlers are
\* disabled (the flag is True throughout a run), and no step changes
\* file_contents or uploaded_files, changes results other than by the run's
\* own merge, or starts another run.
C20_ProcessingDisablesHandlers ==
    /\ []HandlersDisabled
    /\ [][processing =>
             (/\ UNCHANGED <<file_contents, uploaded_files>>
              /\ (results' # results => (pc = "chunk" /\ pc' = "file"))
              /\ ~GuardedHandlers)]_vars

C20_Witness ==
    /\ processing
    /\ pc = "call"
    /\ Len(file_contents) = 2
    /\ Len(results) = 1

(***************************************************************************)
(* SpecLive: the session with the handler of Process Text running on.  The *)
(* handler is one synchronous piece of code (lines 254-404): once started, *)
(* its next step is taken, whatever the provider answers.                  *)
(***************************************************************************)
RunStep == FileStep \/ ChunkLookup \/ ProviderAttempt \/ Merge \/ Finish

SpecLive == Init /\ [][Next]_vars /\ WF_vars(RunStep)

\* the run has ended: the flag is False again and every file has a result
RunEnded ==
    /\ ~processing
    /\ DictKeys(file_contents) \subseteq DictKeys(results)

\* C21: a run started on a non-empty file set terminates whatever the
\* provider does on each attempt: a chunk never causes more than max_retries
\* provider invocations, the flag is True only with files to process, and
\* from every state with the flag True a state is reached where the flag is
\* False and every file has a result.
C21_RunTerminates ==
    /\ [](w.calls <= max_retries /\ (processing => file_contents # <<>>))
    /\ (processing ~> RunEnded)

C21_Witness ==
    /\ RunEnded
    /\ Len(file_contents) = 2
    /\ \E n \in 1..Len(results) : results[n].val = FailedMarker
    /\ \E n \in 1..Len(results) : results[n].val # FailedMarker

(***************************************************************************)
(* Further properties of SpecRetry.                                        *)
(***************************************************************************)
\* the exception is an instance of none of the classes of the retryable set
OutsideRetryableSet(e) == e \notin exceptions /\ "Exception" \notin exceptions

\* C11: when the wrapped function raises an exception outside the retryable
\* set on its n-th invocation, the wrapper propagates that exception on that
\* attempt: the function is not invoked again, no sleep follows the failure
\* (the only sleeps are those of the n-1 earlier retryable failures) and no
\* marker is returned.
C11_NonRetryablePropagatesAtOnce ==
    \A n \in 1..MaxRetriesBound :
        (w.calls >= n /\ script[n].type = "raise"
                      /\ OutsideRetryableSet(script[n].val)) =>
            /\ w.status = "raised"
            /\ w.value = script[n].val
            /\ w.calls = n
            /\ Len(w.sleeps) = n - 1
            /\ ~ENABLED NextRetry

C11_Witness ==
    /\ w.status = "raised"
    /\ w.calls = 2
    /\ script[1].type = "raise" /\ ~OutsideRetryableSet(script[1].val)
    /\ script[2].type = "raise" /\ OutsideRetryableSet(script[2].val)
    /\ Len(w.sleeps) = 1

RECURSIVE Pow(_, _)
Pow(b, n) == IF n = 0 THEN 1 ELSE b * Pow(b, n - 1)

\* C14: the n-th sleep of a call (n = 1, 2, ...) lasts
\* initial_wait * backoff_factor^(n-1); every failed attempt but the one that
\* ends the call is followed by one sleep, and no sleep follows a successful
\* attempt or the final failed attempt, so a function that always fails
\* retryably under max_retries = N >= 1 causes exactly N-1 sleeps.
C14_GeometricBackoff ==
    /\ \A n \in 1..Len(w.sleeps) :
          w.sleeps[n] = initial_wait * Pow(backoff_factor, n - 1)
    /\ w.status = "running" => Len(w.sleeps) = w.calls
    /\ (w.status # "running" /\ w.calls >= 1) => Len(w.sleeps) = w.calls - 1
    /\ (max_retries >= 1 /\ FailsRetryably(max_retries) /\ w.status = "returned") =>
          Len(w.sleeps) = max_retries - 1

C14_Witness ==
    /\ max_retries = 3
    /\ FailsRetryably(max_retries)
    /\ w.status = "returned"
    /\ initial_wait = 1 /\ backoff_factor = 2
    /\ w.sleeps = <<1, 2>>

\* the wrapper's locals after its n-th invocation of the wrapped function in
\* the call where every line reaches the log file
RECURSIVE Replay(_)
Replay(n) ==
    IF n = 0 THEN WrapperStart(initial_wait)
    ELSE LET st == Replay(n - 1) IN
         IF st.status = "running" /\ LoopCond(st.retries, max_retries)
         THEN WrapperIter(st, script[n], max_retries, backoff_factor, exceptions,
                          "written")
         ELSE st

\* ... and when that call has ended
ReplayEnd(n) ==
    LET st == Replay(n) IN
    IF st.status = "running" /\ ~LoopCond(st.retries, max_retries)
    THEN WrapperFallThrough(st)
    ELSE st

\* C15: a write to the log file that fails with an OS error changes nothing
\* of the call: handle_error returns, and after every invocation the retry
\* loop stands where it stands in the call whose log writes all succeed,
\* with the same retries, waits, sleeps, and in the end the same result.
C15_LoggingFailureChangesNothing ==
    LET seen == [w EXCEPT !.lost = FALSE] IN
    IF w.status = "running" THEN seen = Replay(w.calls)
    ELSE seen = ReplayEnd(w.calls)

C15_Witness ==
    /\ w.lost
    /\ w.status = "returned"
    /\ w.calls = 3
    /\ w.value = script[3].val
    /\ script[3].type = "return"

====
